---- MODULE Spec2Model ----
(***************************************************************************)
(* A model of aCOSMIC/GW_calcs.py: the LISA signal-to-noise and power      *)
(* spectral density of a catalogue of binaries (LISA_SNR, LISA_PSD, with   *)
(* m_chirp, peak_gw_freq and peters_gfac) and the binning of (freq, PSD)   *)
(* samples into the LISA frequency resolution (compute_foreground).        *)
(*                                                                         *)
(* Numbers.  A float is modelled as an exact rational <<n, d>> in lowest   *)
(* terms with d > 0; <<0, 0>> is NaN.  The fractional powers of the code   *)
(* are rounded down to a multiple of 1/10.  The catalogue quantities are   *)
(* in units in which G = 4 pi^2 and c = 2 pi, so that the combinations of  *)
(* G, c and pi the code uses are the rationals given below.  The           *)
(* frequencies of compute_foreground are in units of 5e-4 Hz and its Tobs  *)
(* in units of 2000 s, so that the band [5e-4, 1e-2) Hz is [1, 20).        *)
(***************************************************************************)
EXTENDS Integers, Sequences, FiniteSets, TLC

VARIABLES
    m1, m2, porb, ecc, dist,   \* the catalogue: one Series per parameter
    n_harmonic, Tobs,          \* the other arguments of LISA_SNR / LISA_PSD
    snr,                       \* the last LISA_SNR call: locals and outcome
    psd,                       \* the last LISA_PSD call: outcome
    psd_dat,                   \* the caller's table passed to compute_foreground
    fgTobs,                    \* the Tobs passed to compute_foreground
    foreground                 \* the last compute_foreground call: outcome

catVars == <<m1, m2, porb, ecc, dist, n_harmonic, Tobs, snr, psd>>
fgVars == <<psd_dat, fgTobs, foreground>>
vars == <<m1, m2, porb, ecc, dist, n_harmonic, Tobs, snr, psd, psd_dat, fgTobs, foreground>>

(***************************************************************************)
(* Bounds of the model.                                                    *)
(***************************************************************************)
MaxSources == 2
MaxSamples == 4

(***************************************************************************)
(* Rational arithmetic with NaN.                                           *)
(***************************************************************************)
NaN == <<0, 0>>
Zero == <<0, 1>>
One == <<1, 1>>
Two == <<2, 1>>
Quarter == <<1, 4>>
Tenth == <<1, 10>>

Abs(x) == IF x < 0 THEN -x ELSE x

RECURSIVE GCD(_, _)
GCD(a, b) == IF b = 0 THEN a ELSE GCD(b, a % b)

Norm(n, d) ==
    IF d = 0 THEN NaN
    ELSE LET g == GCD(Abs(n), Abs(d))
             s == IF d < 0 THEN -1 ELSE 1
         IN  <<(s * n) \div g, (s * d) \div g>>

IsNaN(a) == a[2] = 0

Mul(a, b) == Norm(a[1] * b[1], a[2] * b[2])

\* 0/0 and a NaN operand give NaN.  A non-zero value over zero (numpy's inf)
\* does not arise for the inputs drawn below.
Div(a, b) == IF b[1] = 0 THEN NaN ELSE Norm(a[1] * b[2], a[2] * b[1])

Add(a, b) ==
    IF IsNaN(a) \/ IsNaN(b) THEN NaN
    ELSE LET g == GCD(a[2], b[2])
         IN  Norm(a[1] * (b[2] \div g) + b[1] * (a[2] \div g), (a[2] \div g) * b[2])

Sub(a, b) == Add(a, <<-b[1], b[2]>>)

Sq(a) == Mul(a, a)

\* Comparisons with NaN are false, as for floats.
Gt(a, b) == ~IsNaN(a) /\ ~IsNaN(b) /\ a[1] * b[2] > b[1] * a[2]
Le(a, b) == ~IsNaN(a) /\ ~IsNaN(b) /\ a[1] * b[2] <= b[1] * a[2]
Lt(a, b) == Gt(b, a)

RECURSIVE IPow(_, _)
IPow(n, k) == IF k = 0 THEN 1 ELSE n * IPow(n, k - 1)

\* the largest r in lo..hi-1 with r^b * c <= rhs, given that lo is one
RECURSIVE FloorRoot(_, _, _, _, _)
FloorRoot(lo, hi, b, c, rhs) ==
    IF hi - lo <= 1 THEN lo
    ELSE LET mid == (lo + hi) \div 2
         IN  IF IPow(mid, b) * c <= rhs
             THEN FloorRoot(mid, hi, b, c, rhs)
             ELSE FloorRoot(lo, mid, b, c, rhs)

\* x ** (a/b), rounded down to a multiple of 1/10 (values below 4); NaN for a
\* negative base, as numpy's power of a float array.
Pow(x, a, b) ==
    IF IsNaN(x) \/ x[1] < 0 THEN NaN
    ELSE LET P == Tenth[2]
         IN  Norm(FloorRoot(0, 4 * P, b, IPow(x[2], a), IPow(P, b) * IPow(x[1], a)), P)

RECURSIVE SumSeq(_)
SumSeq(s) == IF s = <<>> THEN Zero ELSE Add(Head(s), SumSeq(Tail(s)))

(***************************************************************************)
(* A value of the SNR column: a rational, or the square root of one, kept  *)
(* exact as a radical.                                                     *)
(***************************************************************************)
Plain(q) == [rad |-> FALSE, q |-> q]
Sqrt(q) == IF IsNaN(q) \/ q[1] < 0 THEN Plain(NaN) ELSE [rad |-> TRUE, q |-> q]
Square(x) == IF x.rad THEN x.q ELSE Sq(x.q)

(***************************************************************************)
(* Arrays: a Series or 1-d array is a sequence, a 2-d array a sequence of  *)
(* rows.                                                                   *)
(***************************************************************************)
Indices(n) == [i \in 1..n |-> i]

\* v.iloc[ind]
Take(v, ind) == [k \in 1..Len(ind) |-> v[ind[k]]]

\* a variant of Scatter that writes the values to the leading positions
Scatter_leading(arr, ind, vals) ==
    [i \in 1..Len(arr) |-> IF i <= Len(vals) THEN vals[i] ELSE arr[i]]

\* arr[ind] = vals
Scatter(arr, ind, vals) ==
    [i \in 1..Len(arr) |->
        IF \E k \in 1..Len(ind) : ind[k] = i
        THEN vals[CHOOSE k \in 1..Len(ind) : ind[k] = i]
        ELSE arr[i]]

\* M.T, for a 2-d array with at least one row
Transpose(M) == [c \in 1..Len(M[1]) |-> [r \in 1..Len(M) |-> M[r][c]]]

\* M.flatten(): row-major order
RECURSIVE Flatten(_)
Flatten(M) == IF M = <<>> THEN <<>> ELSE Head(M) \o Flatten(Tail(M))

\* flat.reshape((rows, cols))
Reshape(flat, rows, cols) ==
    [r \in 1..rows |-> [c \in 1..cols |-> flat[(r - 1) * cols + c]]]

\* M.sum(axis=0): one sum per column
SumAxis0(M) == [c \in 1..Len(M[1]) |-> SumSeq([r \in 1..Len(M) |-> M[r][c]])]

(***************************************************************************)
(* Physical constants, in units with G = 4 pi^2 and c = 2 pi.              *)
(***************************************************************************)
EightGOverC2 == <<8, 1>>       \* 8*G/c**2
TwoPiGOverC3 == <<1, 1>>       \* G/c**3*2*np.pi
GOver4Pi2 == <<1, 1>>          \* G/(4*np.pi**2)
SqrtGOverPi == <<2, 1>>        \* G**0.5/np.pi

\* ecc > 0.1 selects the eccentric sources
EccThreshold == <<1, 10>>
\* SNR_dat.SNR > 1.0 selects the rows returned
SNRThreshold == <<1, 1>>

(***************************************************************************)
(* The noise curve lisa_sensitivity.lisa_root_psd(): a positive noise      *)
(* amplitude for every frequency, different at different frequencies.      *)
(***************************************************************************)
LISA_psd(f) == Add(One, f)

(***************************************************************************)
(* m_chirp, peak_gw_freq, peters_gfac                                      *)
(***************************************************************************)
m_chirp(a, b) == Div(Pow(Mul(a, b), 3, 5), Pow(Add(a, b), 1, 5))

\* (1 + ecc) ** 1.1954, to one decimal, for the eccentricities drawn below
Pow11954(x) ==
    CASE x = <<5, 4>> -> <<13, 10>>
      [] x = <<3, 2>> -> <<8, 5>>

peak_gw_freq(a, b, e, p) ==
    LET sep_m == Pow(Mul(Mul(GOver4Pi2, Sq(p)), Add(a, b)), 1, 3)
    IN  Div(Mul(Mul(SqrtGOverPi, Pow(Add(a, b), 1, 2)), Pow11954(Add(One, e))),
            Pow(Mul(sep_m, Sq(Sub(One, e))), 3, 2))

\* One entry of peters_gfac: the expression of lines 115-121 for harmonic n
\* and eccentricity e, to three decimals.
gfac(n, e) ==
    CASE e = <<1, 4>> /\ n = 1 -> <<9, 1000>>
      [] e = <<1, 4>> /\ n = 2 -> <<9, 50>>
      [] e = <<1, 4>> /\ n = 3 -> <<29, 500>>
      [] e = <<1, 4>> /\ n = 4 -> <<11, 1000>>
      [] e = <<1, 2>> /\ n = 1 -> <<29, 1000>>
      [] e = <<1, 2>> /\ n = 2 -> <<27, 500>>
      [] e = <<1, 2>> /\ n = 3 -> <<2, 25>>
      [] e = <<1, 2>> /\ n = 4 -> <<61, 1000>>

\* for n in range(1, n_harmonic): one row per harmonic, one column per source
peters_gfac(eccv, N) ==
    [n \in 1..(N - 1) |-> [j \in 1..Len(eccv) |-> gfac(n, eccv[j])]]

(***************************************************************************)
(* LISA_SNR                                                                *)
(***************************************************************************)
\* h_0 of one source
Strain(mc, d, p) ==
    Mul(Div(Mul(EightGOverC2, mc), d),
        Pow(Mul(Mul(TwoPiGOverC3, Div(One, p)), mc), 2, 3))

WhereEcc(eccv) ==
    LET t(i) == Gt(eccv[i], EccThreshold) IN SelectSeq(Indices(Len(eccv)), t)

WhereCirc(eccv) ==
    LET t(i) == Le(eccv[i], EccThreshold) IN SelectSeq(Indices(Len(eccv)), t)

\* np.array([np.arange(1,n_harmonic)/p for p in porb.iloc[ind_ecc]])
GW_freq_rows(porb_ecc, N) ==
    [j \in 1..Len(porb_ecc) |-> [n \in 1..(N - 1) |-> Div(<<n, 1>>, porb_ecc[j])]]

\* a variant of GW_freq_array that leaves out the transposition
GW_freq_array_untransposed(porb_ecc, N) == GW_freq_rows(porb_ecc, N)

GW_freq_array(porb_ecc, N) == Transpose(GW_freq_rows(porb_ecc, N))

\* the comparison SNR_dat.SNR > 1.0
Above(x) == Gt(x.q, SNRThreshold)

\* a variant of ThresholdFilter that tests the length and forgets to select
ThresholdFilter_unselected(rows) == IF Len(rows) > 1 THEN rows ELSE <<>>

\* lines 191-194
ThresholdFilter(rows) ==
    LET keep(r) == Above(r.SNR)
        mask == [i \in 1..Len(rows) |-> Above(rows[i].SNR)]
    IN  IF Len(mask) > 1 THEN SelectSeq(rows, keep) ELSE <<>>

LISA_SNR(a1, a2, p, e, d, N, T) ==
    LET n == Len(a1)
        mChirp == [i \in 1..n |-> m_chirp(a1[i], a2[i])]
        h_0 == [i \in 1..n |-> Strain(mChirp[i], d[i], p[i])]
        h_0_squared == [i \in 1..n |-> Sq(h_0[i])]
        SNR0 == [i \in 1..n |-> Plain(Zero)]
        gw0 == [i \in 1..n |-> Zero]
        ind_ecc == WhereEcc(e)
        ind_circ == WhereCirc(e)
        nE == Len(ind_ecc)
        h_circ == Take(h_0_squared, ind_circ)
        p_circ == Take(p, ind_circ)
        SNR1 == Scatter(SNR0, ind_circ,
                    [k \in 1..Len(ind_circ) |->
                        Plain(Div(Mul(Mul(h_circ[k], Quarter), T),
                                  Sq(LISA_psd(Div(Two, p_circ[k])))))])
        gw1 == Scatter(gw0, ind_circ,
                    [k \in 1..Len(ind_circ) |-> Div(Two, p_circ[k])])
        peters_g_factor == peters_gfac(Take(e, ind_ecc), N)
        GW_freq_flat == Flatten(GW_freq_array(Take(p, ind_ecc), N))
        LISA_curve_eval_flat ==
            [k \in 1..Len(GW_freq_flat) |-> Sq(LISA_psd(GW_freq_flat[k]))]
        LISA_curve_eval == Reshape(LISA_curve_eval_flat, N - 1, nE)
        h_ecc == Take(h_0_squared, ind_ecc)
        h_0_squared_ecc ==
            Transpose([j \in 1..nE |-> [k \in 1..(N - 1) |-> h_ecc[j]]])
        SNR_squared ==
            [r \in 1..(N - 1) |-> [c \in 1..nE |->
                Div(Mul(Mul(h_0_squared_ecc[r][c], T), peters_g_factor[r][c]),
                    LISA_curve_eval[r][c])]]
        SNR_squared_sum == IF nE > 0 THEN SumAxis0(SNR_squared) ELSE <<>>
        SNR2 == IF nE > 0
                THEN Scatter(SNR1, ind_ecc,
                         [k \in 1..nE |-> Sqrt(SNR_squared_sum[k])])
                ELSE SNR1
        gw2 == IF nE > 0
               THEN Scatter(gw1, ind_ecc,
                        [k \in 1..nE |->
                            peak_gw_freq(a1[ind_ecc[k]], a2[ind_ecc[k]],
                                         e[ind_ecc[k]], p[ind_ecc[k]])])
               ELSE gw1
        table == [i \in 1..n |-> [idx |-> i, gw_freq |-> gw2[i], SNR |-> SNR2[i]]]
    IN  [outcome |-> "ok",
         h_0_squared |-> h_0_squared,
         ind_ecc |-> ind_ecc,
         SNR_squared_sum |-> SNR_squared_sum,
         gw_freq |-> gw2,
         SNR |-> SNR2,
         SNR_dat |-> ThresholdFilter(table)]

(***************************************************************************)
(* LISA_PSD                                                                *)
(***************************************************************************)
LISA_PSD(a1, a2, p, e, d, N, T) ==
    LET n == Len(a1)
        mChirp == [i \in 1..n |-> m_chirp(a1[i], a2[i])]
        h_0 == [i \in 1..n |-> Strain(mChirp[i], d[i], p[i])]
        h_0_squared == [i \in 1..n |-> Sq(h_0[i])]
        ind_ecc == WhereEcc(e)
        ind_circ == WhereCirc(e)
        h_circ == Take(h_0_squared, ind_circ)
        p_circ == Take(p, ind_circ)
        power == [k \in 1..Len(ind_circ) |-> Mul(Mul(h_circ[k], Quarter), T)]
        freq == [k \in 1..Len(ind_circ) |-> Div(Two, p_circ[k])]
    IN  IF Len(ind_ecc) > 0
        THEN \* line 256 reads h_0_squared_ecc, a name this function never binds
             [outcome |-> "NameError", PSD_dat |-> <<>>]
        ELSE [outcome |-> "ok",
              PSD_dat |-> [k \in 1..Len(freq) |-> [freq |-> freq[k], PSD |-> power[k]]]]

(***************************************************************************)
(* The catalogue: inputs and calls.                                        *)
(***************************************************************************)
\* Sources with physical parameters, and sources with a negative distance or
\* a negative mass.
PhysicalSources ==
    [m1 : {<<1, 1>>}, m2 : {<<1, 1>>}, porb : {<<1, 1>>, <<2, 1>>},
     ecc : {<<0, 1>>, <<1, 10>>, <<1, 4>>, <<1, 2>>}, dist : {<<1, 1>>, <<2, 1>>}]
NonPhysicalSources ==
    [m1 : {<<1, 1>>}, m2 : {<<1, 1>>}, porb : {<<1, 1>>},
     ecc : {<<0, 1>>, <<1, 2>>}, dist : {<<-1, 1>>}]
    \cup
    [m1 : {<<-1, 1>>}, m2 : {<<1, 1>>}, porb : {<<1, 1>>},
     ecc : {<<0, 1>>, <<1, 2>>}, dist : {<<1, 1>>}]
Sources == PhysicalSources \cup NonPhysicalSources
TobsSet == {<<4, 1>>}
HarmonicSet == {2, 3, 4}

NotCalled == [outcome |-> "none"]
NoTable == [columns |-> <<>>, rows |-> <<>>]

InitCatalog ==
    /\ \E n \in 0..MaxSources :
          \E cat \in [1..n -> Sources] :
              /\ m1 = [i \in 1..n |-> cat[i].m1]
              /\ m2 = [i \in 1..n |-> cat[i].m2]
              /\ porb = [i \in 1..n |-> cat[i].porb]
              /\ ecc = [i \in 1..n |-> cat[i].ecc]
              /\ dist = [i \in 1..n |-> cat[i].dist]
    /\ n_harmonic \in HarmonicSet
    /\ Tobs \in TobsSet
    /\ snr = NotCalled
    /\ psd = NotCalled
    /\ psd_dat = NoTable
    /\ fgTobs = One
    /\ foreground = NotCalled

\* LISA_SNR and LISA_PSD read the catalogue and write nothing but their result:
\* a second call on the same catalogue returns the same table.
CallLISA_SNR ==
    /\ snr.outcome = "none"
    /\ snr' = LISA_SNR(m1, m2, porb, ecc, dist, n_harmonic, Tobs)
    /\ UNCHANGED <<m1, m2, porb, ecc, dist, n_harmonic, Tobs, psd>>
    /\ UNCHANGED fgVars

CallLISA_PSD ==
    /\ psd.outcome = "none"
    /\ psd' = LISA_PSD(m1, m2, porb, ecc, dist, n_harmonic, Tobs)
    /\ UNCHANGED <<m1, m2, porb, ecc, dist, n_harmonic, Tobs, snr>>
    /\ UNCHANGED fgVars

NextCatalog == CallLISA_SNR \/ CallLISA_PSD

SpecCatalog == InitCatalog /\ [][NextCatalog]_vars

(***************************************************************************)
(* compute_foreground                                                      *)
(***************************************************************************)
FLow == <<1, 1>>         \* 5e-4 Hz
FHigh == <<20, 1>>       \* 1e-2 Hz

\* the least integer >= q, for a rational q
Ceil(q) == IF q[1] <= 0 THEN -((-q[1]) \div q[2]) ELSE (q[1] + q[2] - 1) \div q[2]

\* np.arange(start, stop, step)
ARange(start, stop, step) ==
    LET len == Ceil(Div(Sub(stop, start), step))
    IN  [i \in 1..(IF len > 0 THEN len ELSE 0) |-> Add(start, Mul(<<i - 1, 1>>, step))]

\* np.digitize(x, bins) for increasing bins: the number of edges <= x
Digitize(x, bins) == Cardinality({i \in 1..Len(bins) : Le(bins[i], x)})

\* the keys of a groupby: the distinct values, in increasing order
RECURSIVE SortedSeq(_)
SortedSeq(S) ==
    IF S = {} THEN <<>>
    ELSE LET m == CHOOSE x \in S : \A y \in S : x <= y
         IN  <<m>> \o SortedSeq(S \ {m})

\* the first n elements of s: s[:n]
Prefix(s, n) == [i \in 1..(IF n < Len(s) THEN (IF n > 0 THEN n ELSE 0) ELSE Len(s)) |-> s[i]]

compute_foreground(table, T) ==
    LET binwidth == Div(One, T)
        freqBinsLISA == ARange(FLow, FHigh, binwidth)
        L == Len(freqBinsLISA)
        nRows == Len(table.rows)
        binIndices == [i \in 1..nRows |-> Digitize(table.rows[i].freq, freqBinsLISA)]
        \* psd_dat['digits'] = binIndices
        withDigits ==
            [columns |-> IF \E c \in 1..Len(table.columns) : table.columns[c] = "digits"
                         THEN table.columns
                         ELSE Append(table.columns, "digits"),
             rows |-> [i \in 1..nRows |->
                          [freq |-> table.rows[i].freq,
                           PSD |-> table.rows[i].PSD,
                           digits |-> binIndices[i]]]]
        \* groupby('digits').sum()['PSD']: keys in increasing order
        keys == SortedSeq({binIndices[i] : i \in 1..nRows})
        power_sum ==
            [k \in 1..Len(keys) |->
                LET inGroup(r) == r.digits = keys[k]
                    group == SelectSeq(withDigits.rows, inGroup)
                IN  SumSeq([i \in 1..Len(group) |-> group[i].PSD])]
        \* power_tot[power_sum.index[:len(freqBinsLISA)-1]] = power_sum
        target == Prefix(keys, L - 1)
        fitsShape == Len(power_sum) = Len(target) \/ Len(power_sum) = 1
        power_tot ==
            [d \in 0..L |->
                IF \E j \in 1..Len(target) : target[j] = d
                THEN LET j == CHOOSE j \in 1..Len(target) : target[j] = d
                     IN  IF Len(power_sum) = Len(target) THEN power_sum[j] ELSE power_sum[1]
                ELSE Zero]
    IN  [psd_dat |-> withDigits,
         result |->
            IF fitsShape
            THEN [outcome |-> "ok",
                  foreground_dat |->
                      [i \in 1..L |-> [freq |-> freqBinsLISA[i], PSD |-> power_tot[i]]]]
            ELSE \* the value array cannot be broadcast to the indexing result
                 [outcome |-> "ValueError", foreground_dat |-> <<>>]]

(***************************************************************************)
(* The samples: inputs and calls.                                          *)
(***************************************************************************)
FreqSet == {<<0, 1>>, <<1, 1>>, <<8, 1>>, <<15, 1>>, <<20, 1>>}
PSDSet == {<<1, 1>>, <<2, 1>>}
\* binwidth 7 gives the edges 1, 8, 15; binwidth 10 the edges 1, 11
FgTobsSet == {<<1, 7>>, <<1, 10>>}

InitForeground ==
    /\ \E n \in 0..MaxSamples :
          \E rows \in [1..n -> [freq : FreqSet, PSD : PSDSet]] :
              psd_dat = [columns |-> <<"freq", "PSD">>, rows |-> rows]
    /\ fgTobs \in FgTobsSet
    /\ foreground = NotCalled
    /\ m1 = <<>> /\ m2 = <<>> /\ porb = <<>> /\ ecc = <<>> /\ dist = <<>>
    /\ n_harmonic = 2
    /\ Tobs = One
    /\ snr = NotCalled
    /\ psd = NotCalled

CallComputeForeground ==
    /\ LET r == compute_foreground(psd_dat, fgTobs)
       IN  /\ psd_dat' = r.psd_dat
           /\ foreground' = r.result
    /\ fgTobs' = fgTobs
    /\ UNCHANGED catVars

NextForeground == CallComputeForeground

SpecForeground == InitForeground /\ [][NextForeground]_vars

(***************************************************************************)
(* Properties of LISA_SNR and LISA_PSD, under SpecCatalog.                 *)
(***************************************************************************)
nSources == Len(m1)
IsCircular(i) == Le(ecc[i], EccThreshold)
IsEccentric(i) == Gt(ecc[i], EccThreshold)
SNRCalled == snr.outcome # "none"
PSDCalled == psd.outcome # "none"

\* h_0 ** 2 of source i, from its own parameters
SourceH0Sq(i) == Sq(Strain(m_chirp(m1[i], m2[i]), dist[i], porb[i]))

\* h_0^2 * Tobs / 4 / noise(2/porb)^2 of source i
CircularRatio(i) ==
    Div(Mul(Mul(SourceH0Sq(i), Quarter), Tobs), Sq(LISA_psd(Div(Two, porb[i]))))

\* sum over n = 1..n_harmonic-1 of h_0^2 * Tobs * g(n, ecc) / noise(n/porb)^2,
\* every factor taken from source i
HarmonicSum(i) ==
    LET h == SourceH0Sq(i)
    IN  SumSeq([n \in 1..(n_harmonic - 1) |->
                   Div(Mul(Mul(h, Tobs), gfac(n, ecc[i])),
                       Sq(LISA_psd(Div(<<n, 1>>, porb[i]))))])

\* the positions of the sources whose computed SNR is > 1.0, in input order
AboveOne(i) == Gt(snr.SNR[i].q, One)
PositionsAbove == SelectSeq(Indices(nSources), AboveOne)
RowPositions == [k \in 1..Len(snr.SNR_dat) |-> snr.SNR_dat[k].idx]

\* C1: the table returned by LISA_SNR has one row for each source whose
\* computed SNR is > 1.0, for a catalogue of any size, and a single circular
\* source above the threshold gives exactly one row with gw_freq = 2/porb.
C1_RowForEverySourceAbove ==
    SNRCalled =>
        /\ snr.outcome = "ok"
        /\ RowPositions = PositionsAbove
        /\ (nSources = 1 /\ ecc[1] = Zero /\ AboveOne(1)) =>
              /\ Len(snr.SNR_dat) = 1
              /\ snr.SNR_dat[1].gw_freq = Div(Two, porb[1])

\* C2: every row of the table returned by LISA_SNR has SNR > 1.0.
C2_RowsAboveThreshold ==
    SNRCalled =>
        \A k \in 1..Len(snr.SNR_dat) :
            \* a value q or sqrt(q) with q >= 0 exceeds 1 exactly when q does
            Gt(snr.SNR_dat[k].SNR.q, One)

C2_Witness ==
    /\ SNRCalled
    /\ nSources >= 2
    /\ Len(snr.SNR_dat) >= 1
    /\ Len(snr.SNR_dat) < nSources
    /\ \E i \in 1..nSources : IsCircular(i) /\ ~AboveOne(i) /\ ~IsNaN(snr.SNR[i].q)
    /\ \E k \in 1..Len(snr.SNR_dat) : IsEccentric(snr.SNR_dat[k].idx)

\* C3: LISA_PSD returns normally, for a catalogue with C circular and E
\* eccentric sources, a table of C + E*(n_harmonic-1) rows.
C3_PSDRowCount ==
    PSDCalled =>
        /\ psd.outcome = "ok"
        /\ Len(psd.PSD_dat) =
              Cardinality({i \in 1..nSources : IsCircular(i)})
              + Cardinality({i \in 1..nSources : IsEccentric(i)}) * (n_harmonic - 1)

NonPhysical(i) ==
    \/ Le(porb[i], Zero)
    \/ Le(dist[i], Zero)
    \/ Le(m1[i], Zero)
    \/ Le(m2[i], Zero)

\* C7: with a source whose porb, dist, m1 or m2 is <= 0, LISA_SNR and
\* LISA_PSD end in an error and return no table.
C7_NonPhysicalRejected ==
    (\E i \in 1..nSources : NonPhysical(i)) =>
        /\ SNRCalled => snr.outcome # "ok"
        /\ PSDCalled => psd.outcome # "ok"

\* C8: for a circular source the value in the SNR column, before the
\* threshold, squares to h_0^2 * Tobs / 4 / noise(2/porb)^2.
C8_CircularSNRSquared ==
    SNRCalled =>
        \A i \in 1..nSources :
            IsCircular(i) => Square(snr.SNR[i]) = CircularRatio(i)

\* C9: for a catalogue of two or more sources, before the threshold row i
\* holds the gw_freq and the SNR of source i, each computed in that source's
\* own regime, and the rows returned are in increasing input position.
C9_MergedInSourceOrder ==
    (SNRCalled /\ nSources >= 2) =>
        /\ Len(snr.SNR) = nSources /\ Len(snr.gw_freq) = nSources
        /\ \A i \in 1..nSources :
              IF IsCircular(i)
              THEN /\ snr.gw_freq[i] = Div(Two, porb[i])
                   /\ snr.SNR[i] = Plain(CircularRatio(i))
              ELSE /\ snr.gw_freq[i] = peak_gw_freq(m1[i], m2[i], ecc[i], porb[i])
                   /\ snr.SNR[i] = Sqrt(HarmonicSum(i))
        /\ \A k \in 1..Len(snr.SNR_dat) :
              LET r == snr.SNR_dat[k]
              IN  /\ r.gw_freq = snr.gw_freq[r.idx]
                  /\ r.SNR = snr.SNR[r.idx]
                  /\ k > 1 => snr.SNR_dat[k - 1].idx < r.idx

C9_Witness ==
    /\ SNRCalled
    /\ nSources >= 2
    /\ IsEccentric(1) /\ IsCircular(2)
    /\ porb[1] # porb[2]
    /\ Len(snr.SNR_dat) = 2
    /\ snr.SNR[1] # snr.SNR[2]

\* C10: for eccentric source j the quantity summed over the harmonics is the
\* sum over n = 1..n_harmonic-1 of h_0_j^2 * Tobs * g(n, ecc_j) /
\* noise(n/porb_j)^2, every factor being source j's own.
C10_HarmonicsAligned ==
    SNRCalled =>
        /\ Len(snr.SNR_squared_sum) = Len(snr.ind_ecc)
        /\ \A j \in 1..Len(snr.ind_ecc) :
              /\ IsEccentric(snr.ind_ecc[j])
              /\ snr.SNR_squared_sum[j] = HarmonicSum(snr.ind_ecc[j])

C10_Witness ==
    /\ SNRCalled
    /\ n_harmonic >= 3
    /\ Len(snr.ind_ecc) >= 2
    /\ \E j, k \in 1..Len(snr.ind_ecc) :
          /\ porb[snr.ind_ecc[j]] # porb[snr.ind_ecc[k]]
          /\ ecc[snr.ind_ecc[j]] # ecc[snr.ind_ecc[k]]
          /\ ~IsNaN(snr.SNR_squared_sum[j])
          /\ ~IsNaN(snr.SNR_squared_sum[k])
          /\ snr.SNR_squared_sum[j] # snr.SNR_squared_sum[k]

(***************************************************************************)
(* Properties of compute_foreground, under SpecForeground.                 *)
(***************************************************************************)
FGCalled == foreground.outcome # "none"
InBand(f) == Le(FLow, f) /\ Lt(f, FHigh)
BinEdges == ARange(FLow, FHigh, Div(One, fgTobs))

\* the PSD of the samples of the input whose frequency lies in [5e-4, 1e-2)
InBandPSD ==
    LET inBand(r) == InBand(r.freq)
        kept == SelectSeq(psd_dat.rows, inBand)
    IN  SumSeq([i \in 1..Len(kept) |-> kept[i].PSD])

OutputPSD ==
    SumSeq([i \in 1..Len(foreground.foreground_dat) |-> foreground.foreground_dat[i].PSD])

\* C4: the PSD summed over the output bins is the PSD summed over the input
\* samples in [5e-4, 1e-2); samples outside contribute to no bin.
C4_BandConservation ==
    foreground.outcome = "ok" => OutputPSD = InBandPSD

\* C5: compute_foreground completes without raising and returns one row per
\* bin edge, in increasing order, with PSD = 0 for a bin without samples.
C5_OneRowPerBin ==
    FGCalled =>
        /\ foreground.outcome = "ok"
        /\ Len(foreground.foreground_dat) = Len(BinEdges)
        /\ \A i \in 1..Len(BinEdges) :
              /\ foreground.foreground_dat[i].freq = BinEdges[i]
              /\ (\A k \in 1..Len(psd_dat.rows) :
                      Digitize(psd_dat.rows[k].freq, BinEdges) # i)
                 => foreground.foreground_dat[i].PSD = Zero

\* C6: compute_foreground leaves the caller's psd_dat as it was: the same
\* columns and the same rows.
C6_InputUnchanged == [][CallComputeForeground => psd_dat' = psd_dat]_vars

====
